---- MODULE Spec2Model ----
(***************************************************************************)
(* Model of the hardware stress-test harness in src/c.py.                  *)
(*                                                                         *)
(* Every function of src/c.py that runs as a thread is a process with a    *)
(* program counter in pc; cleanup() keeps its own program counter per      *)
(* caller in cpc.  A print() call is a state of its own ("print_..."): the *)
(* thread is inside the console write until the following action.          *)
(* The actions are grouped per function.  The pool threads interact only   *)
(* through stop_event, the backing file, the executor and the console, so  *)
(* each specification follows the controlling thread, cleanup() and one    *)
(* group of tasks step by step; of the tasks outside the group it keeps    *)
(* only whether they have ended (OtherTasksEnd), which is all the          *)
(* interpreter's join of the pool depends on.                              *)
(***************************************************************************)
EXTENDS Integers, Sequences, FiniteSets

\* ------------------------------------------------------------- bounds
\* Largest logical core count psutil.cpu_count() reports in the model.
MaxCores == 1
\* Chunks ram_stress may allocate in one run.
MaxAlloc == 6
\* Threads of the cleanup() harness and the calls they make in total.
NCallers == 2
MaxCalls == 3
\* Passes of the strided loop of cache_stress in one run.
MaxPasses == 2
\* Largest array size and stride of the scaled-down cache array.
MaxArray == 6
MaxStride == 3
\* Report lines diagnosis_monitor may print in one run.
MaxReports == 2

\* ---------------------------------------------------- program constants
MONITOR_INTERVAL == 5
DefaultCpuThreads == 4
ExtraWorkers == 7
RingCapacity == 4
ARRAY_SIZE == 256000000
STRIDE == 4096
BUFFER_LEN == 4096 * 4096
INITIAL_FILE_LEN == 10 * 4096 * 4096

VARIABLES
    stop_event,       \* threading.Event: TRUE once set
    lock,             \* threading.Lock: "free" or the thread holding it
    executor,         \* "None", "running" or "shutdown"
    max_workers,      \* capacity of the pool
    num_cpu_threads,  \* number of cpu_stress tasks
    submitted,        \* tasks handed to executor.submit, in order
    pc,               \* program counter of the controlling thread and of each task
    cpc,              \* program counter of cleanup(), per calling thread
    interrupts,       \* KeyboardInterrupts delivered to the controlling thread
    calls,            \* invocations of cleanup() made by the harness
    file,             \* DISK_FILE: [exists, size]
    disk_exit,        \* how disk_stress left its loop
    pool_stops,       \* executor.shutdown() calls performed
    removes,          \* os.remove(DISK_FILE) calls that succeeded
    completion_logs,  \* "Stress test complete." lines printed
    memory_chunks,    \* the global list of ram_stress
    ring_exists,      \* whether the global memory_chunks is defined
    allocs,           \* chunks allocated so far
    iterations,       \* completed loop iterations of ram_stress
    ram_exit,         \* how ram_stress left its loop
    array_size,       \* cache_stress: number of elements of data
    stride,           \* cache_stress: stride
    data,             \* cache_stress: number of updates of each element
    cache_i,          \* cache_stress: loop variable i of the running pass
    touched,          \* cache_stress: indices written in the running pass
    passes,           \* cache_stress: completed passes
    snap_start,       \* diagnosis_monitor: counters before the sleep
    snap_end,         \* diagnosis_monitor: counters after the sleep
    rates,            \* diagnosis_monitor: the four rates of the last report
    reports,          \* diagnosis_monitor: report lines printed
    late_reports      \* diagnosis_monitor: report lines printed with stop_event set

vars == <<stop_event, lock, executor, max_workers, num_cpu_threads, submitted,
          pc, cpc, interrupts, calls, file, disk_exit, pool_stops, removes,
          completion_logs, memory_chunks, ring_exists, allocs, iterations,
          ram_exit, array_size, stride, data, cache_i, touched, passes,
          snap_start, snap_end, rates, reports, late_reports>>

sharedVars == <<stop_event, lock, executor, max_workers, num_cpu_threads,
                submitted, interrupts, calls, file, pool_stops, removes,
                completion_logs>>
diskVars == <<disk_exit>>
ramVars == <<memory_chunks, ring_exists, allocs, iterations, ram_exit>>
cacheVars == <<array_size, stride, data, cache_i, touched, passes>>
monVars == <<snap_start, snap_end, rates, reports, late_reports>>

\* ------------------------------------------------------------ threads
CpuNames == <<"cpu0", "cpu1", "cpu2", "cpu3", "cpu4", "cpu5">>
CpuThreads(n) == {CpuNames[i] : i \in 1..n}
AllCpuThreads == {CpuNames[i] : i \in 1..Len(CpuNames)}
OtherTasks == <<"ram", "disk", "net", "gpu", "cache", "io", "mon">>
Tasks == {OtherTasks[i] : i \in 1..Len(OtherTasks)} \cup AllCpuThreads
CallerNames == <<"caller1", "caller2", "caller3", "caller4">>
HarnessCallers == {CallerNames[i] : i \in 1..NCallers}
Callers == {"main"} \cup HarnessCallers

\* The argument list of the executor.submit calls of main(), in order.
TaskOrder(n) == OtherTasks \o [i \in 1..n |-> CpuNames[i]]
Range(s) == {s[i] : i \in 1..Len(s)}

\* psutil.cpu_count(logical=True): 0 stands for None.
CpuCounts == 0..MaxCores

NoFile == [exists |-> FALSE, size |-> 0]
NewFile == [exists |-> TRUE, size |-> INITIAL_FILE_LEN]

\* A task has ended (returned, raised, or was cancelled while queued).
Ended(t) == pc[t] \in {"done", "cancelled"}
\* The interpreter has exited: no thread of the process takes another step.
Alive == pc["main"] # "exited"
Running(t, at) == Alive /\ pc[t] = at

\* Inside a console write.
PrintPcs == {"print_start", "print_err", "print_info", "print_fatal", "print_header",
             "print_conn", "print_ssl", "print_req", "print_report"}
CleanupPrintPcs == {"print_interrupt", "print_shutdown", "print_deleted",
                    "print_warning", "print_complete"}
Threads == Tasks \cup Callers
InConsoleWrite(t) ==
    \/ t \in DOMAIN pc /\ pc[t] \in PrintPcs
    \/ t \in Callers /\ cpc[t] \in CleanupPrintPcs

\* ---------------------------------------------------------------- Init
Snapshot0 == [bytes_sent |-> 0, bytes_recv |-> 0, read_bytes |-> 0, write_bytes |-> 0]
NoRates == [net_sent |-> <<0, 1>>, net_recv |-> <<0, 1>>,
            disk_read |-> <<0, 1>>, disk_write |-> <<0, 1>>]

InitCommon ==
    /\ stop_event = FALSE
    /\ lock = "free"
    /\ max_workers = 0
    /\ num_cpu_threads = 0
    /\ submitted = <<>>
    /\ pc = [t \in Tasks \cup {"main"} |-> IF t = "main" THEN "start" ELSE "idle"]
    /\ cpc = [c \in Callers |-> "none"]
    /\ interrupts = 0
    /\ calls = 0
    /\ file \in {NoFile, NewFile}
    /\ disk_exit = "none"
    /\ pool_stops = 0
    /\ removes = 0
    /\ completion_logs = 0
    /\ memory_chunks = <<>>
    /\ ring_exists = FALSE
    /\ allocs = 0
    /\ iterations = 0
    /\ ram_exit = "none"
    /\ data = [j \in 0..(array_size - 1) |-> 0]
    /\ cache_i = 0
    /\ touched = {}
    /\ passes = 0
    /\ snap_start = Snapshot0
    /\ snap_end = Snapshot0
    /\ rates = NoRates
    /\ reports = 0
    /\ late_reports = 0

\* The state when main() is entered; the cache array is scaled down.
Init ==
    /\ array_size = 4
    /\ stride = 2
    /\ executor = "None"
    /\ InitCommon

\* ---------------------------------------------------------------- main
\* Mutant of MainStart: ThreadPoolExecutor(max_workers=num_cpu_threads).
MainStartNoExtraWorkers ==
    /\ pc["main"] = "start"
    /\ \E c \in CpuCounts, created \in BOOLEAN :
        /\ num_cpu_threads' = IF c = 0 THEN DefaultCpuThreads ELSE c
        /\ max_workers' = num_cpu_threads'
        /\ file' = IF ~file.exists /\ created THEN NewFile ELSE file
    /\ executor' = "running"
    /\ pc' = [pc EXCEPT !["main"] = "submit"]
    /\ UNCHANGED <<stop_event, lock, submitted, cpc, interrupts, calls, pool_stops,
                   removes, completion_logs, diskVars, ramVars, cacheVars, monVars>>

\* Lines 332-350: core count, pre-creation of the file, atexit, the pool.
MainStart ==
    /\ pc["main"] = "start"
    /\ \E c \in CpuCounts, created \in BOOLEAN :
        /\ num_cpu_threads' = IF c = 0 THEN DefaultCpuThreads ELSE c
        /\ max_workers' = num_cpu_threads' + ExtraWorkers
        /\ file' = IF ~file.exists /\ created THEN NewFile ELSE file
    /\ executor' = "running"
    /\ pc' = [pc EXCEPT !["main"] = "submit"]
    /\ UNCHANGED <<stop_event, lock, submitted, cpc, interrupts, calls, pool_stops,
                   removes, completion_logs, diskVars, ramVars, cacheVars, monVars>>

\* Lines 353-364: one executor.submit call.
MainSubmit ==
    /\ pc["main"] = "submit"
    /\ Len(submitted) < Len(TaskOrder(num_cpu_threads))
    /\ submitted' = Append(submitted, TaskOrder(num_cpu_threads)[Len(submitted) + 1])
    /\ UNCHANGED <<stop_event, lock, executor, max_workers, num_cpu_threads, pc, cpc,
                   interrupts, calls, file, pool_stops, removes, completion_logs,
                   diskVars, ramVars, cacheVars, monVars>>

\* Lines 367-372: the header is printed once every task is submitted.
MainHeader ==
    /\ pc["main"] = "submit"
    /\ Len(submitted) = Len(TaskOrder(num_cpu_threads))
    /\ pc' = [pc EXCEPT !["main"] = "print_header"]
    /\ UNCHANGED <<sharedVars, cpc, diskVars, ramVars, cacheVars, monVars>>

MainHeaderDone ==
    /\ pc["main"] = "print_header"
    /\ pc' = [pc EXCEPT !["main"] = "loop"]
    /\ UNCHANGED <<sharedVars, cpc, diskVars, ramVars, cacheVars, monVars>>

\* Lines 375-377: the controlling thread polls the event once a second.
MainLoop ==
    /\ pc["main"] = "loop"
    /\ pc' = [pc EXCEPT !["main"] = IF stop_event THEN "finalize" ELSE "loop"]
    /\ UNCHANGED <<sharedVars, cpc, diskVars, ramVars, cacheVars, monVars>>

\* Lines 378-380: KeyboardInterrupt in the loop is swallowed and main() returns;
\* raised before the try it ends main() as well.
Interrupt ==
    /\ pc["main"] \in {"submit", "print_header", "loop"}
    /\ interrupts = 0
    /\ interrupts' = 1
    /\ pc' = [pc EXCEPT !["main"] = "finalize"]
    /\ UNCHANGED <<stop_event, lock, executor, max_workers, num_cpu_threads, submitted,
                   cpc, calls, file, pool_stops, removes, completion_logs,
                   diskVars, ramVars, cacheVars, monVars>>

\* Interpreter exit after main() returns.  The pool of line 350 is joined before
\* the atexit callbacks run: the callback of line 347 starts only when every
\* pool thread has ended.
JoinDone ==
    /\ pc["main"] = "finalize"
    /\ \A t \in Range(submitted) : Ended(t)
    /\ pc' = [pc EXCEPT !["main"] = "atexit"]
    /\ UNCHANGED <<sharedVars, cpc, diskVars, ramVars, cacheVars, monVars>>

\* A further KeyboardInterrupt while the pool is being joined abandons the join.
InterruptJoin ==
    /\ pc["main"] = "finalize"
    /\ interrupts \in 0..1
    /\ interrupts' = interrupts + 1
    /\ pc' = [pc EXCEPT !["main"] = "atexit"]
    /\ UNCHANGED <<stop_event, lock, executor, max_workers, num_cpu_threads, submitted,
                   cpc, calls, file, pool_stops, removes, completion_logs,
                   diskVars, ramVars, cacheVars, monVars>>

\* Line 347: the registered cleanup() is called by the exiting interpreter.
AtExit ==
    /\ pc["main"] = "atexit"
    /\ pc' = [pc EXCEPT !["main"] = "cleanup"]
    /\ cpc' = [cpc EXCEPT !["main"] = "guard"]
    /\ UNCHANGED <<sharedVars, diskVars, ramVars, cacheVars, monVars>>

\* cleanup() has returned to the interpreter, or raised into it, and the
\* interpreter exits.
MainExit ==
    /\ pc["main"] = "cleanup"
    /\ cpc["main"] \in {"returned", "done", "raised"}
    /\ pc' = [pc EXCEPT !["main"] = "exited"]
    /\ UNCHANGED <<sharedVars, cpc, diskVars, ramVars, cacheVars, monVars>>

Main ==
    \/ MainStart
    \/ MainSubmit
    \/ MainHeader
    \/ MainHeaderDone
    \/ MainLoop
    \/ Interrupt
    \/ JoinDone
    \/ InterruptJoin
    \/ AtExit
    \/ MainExit

\* ------------------------------------------------------------- cleanup
\* Lines 302-305: the guard, then the first log line.
CleanupGuard(c) ==
    /\ cpc[c] = "guard"
    /\ cpc' = [cpc EXCEPT ![c] = IF stop_event THEN "returned" ELSE "print_interrupt"]
    /\ UNCHANGED <<sharedVars, pc, diskVars, ramVars, cacheVars, monVars>>

\* Mutant of CleanupSet: stop_event.set() is left out.
CleanupSetSkipped(c) ==
    /\ cpc[c] = "print_interrupt"
    /\ cpc' = [cpc EXCEPT ![c] = "executor"]
    /\ UNCHANGED <<sharedVars, pc, diskVars, ramVars, cacheVars, monVars>>

\* Line 306: stop_event.set().
CleanupSet(c) ==
    /\ cpc[c] = "print_interrupt"
    /\ stop_event' = TRUE
    /\ cpc' = [cpc EXCEPT ![c] = "executor"]
    /\ UNCHANGED <<lock, executor, max_workers, num_cpu_threads, submitted, pc,
                   interrupts, calls, file, pool_stops, removes, completion_logs,
                   diskVars, ramVars, cacheVars, monVars>>

\* Lines 308-309: "if executor:" and the log line of the branch.
CleanupExecutor(c) ==
    /\ cpc[c] = "executor"
    /\ cpc' = [cpc EXCEPT ![c] = IF executor # "None" THEN "print_shutdown" ELSE "sleep"]
    /\ UNCHANGED <<sharedVars, pc, diskVars, ramVars, cacheVars, monVars>>

\* Mutant of CleanupShutdown: executor.shutdown(wait=True) returns only when every
\* pool thread has ended.
CleanupShutdownWaits(c) ==
    /\ cpc[c] = "print_shutdown"
    /\ \A t \in Range(submitted) : Ended(t)
    /\ executor' = "shutdown"
    /\ pool_stops' = pool_stops + 1
    /\ cpc' = [cpc EXCEPT ![c] = "sleep"]
    /\ UNCHANGED <<stop_event, lock, max_workers, num_cpu_threads, submitted, pc,
                   interrupts, calls, file, removes, completion_logs,
                   diskVars, ramVars, cacheVars, monVars>>

\* Line 311: executor.shutdown(wait=False, cancel_futures=True) returns at once.
CleanupShutdown(c) ==
    /\ cpc[c] = "print_shutdown"
    /\ executor' = "shutdown"
    /\ pool_stops' = pool_stops + 1
    /\ cpc' = [cpc EXCEPT ![c] = "sleep"]
    /\ UNCHANGED <<stop_event, lock, max_workers, num_cpu_threads, submitted, pc,
                   interrupts, calls, file, removes, completion_logs,
                   diskVars, ramVars, cacheVars, monVars>>

\* Line 311 is in no try block: an exception of executor.shutdown (a TypeError
\* for cancel_futures before Python 3.9, for instance) leaves cleanup() at once.
CleanupShutdownFails(c) ==
    /\ cpc[c] = "print_shutdown"
    /\ cpc' = [cpc EXCEPT ![c] = "raised"]
    /\ UNCHANGED <<sharedVars, pc, diskVars, ramVars, cacheVars, monVars>>

\* Line 314: time.sleep(2).
CleanupSleep(c) ==
    /\ cpc[c] = "sleep"
    /\ cpc' = [cpc EXCEPT ![c] = "exists"]
    /\ UNCHANGED <<sharedVars, pc, diskVars, ramVars, cacheVars, monVars>>

\* Line 318: os.path.exists(DISK_FILE).
CleanupExists(c) ==
    /\ cpc[c] = "exists"
    /\ cpc' = [cpc EXCEPT ![c] = IF file.exists THEN "remove" ELSE "print_complete"]
    /\ UNCHANGED <<sharedVars, pc, diskVars, ramVars, cacheVars, monVars>>

\* Lines 319-320: os.remove(DISK_FILE) succeeds.
CleanupRemove(c) ==
    /\ cpc[c] = "remove"
    /\ file.exists
    /\ file' = NoFile
    /\ removes' = removes + 1
    /\ cpc' = [cpc EXCEPT ![c] = "print_deleted"]
    /\ UNCHANGED <<stop_event, lock, executor, max_workers, num_cpu_threads, submitted,
                   pc, interrupts, calls, pool_stops, completion_logs,
                   diskVars, ramVars, cacheVars, monVars>>

\* Lines 321-322: os.remove raises (the file is in use, protected or already gone).
CleanupRemoveFails(c) ==
    /\ cpc[c] = "remove"
    /\ cpc' = [cpc EXCEPT ![c] = "print_warning"]
    /\ UNCHANGED <<sharedVars, pc, diskVars, ramVars, cacheVars, monVars>>

\* End of the log line of line 320 or 322.
CleanupLogged(c) ==
    /\ cpc[c] \in {"print_deleted", "print_warning"}
    /\ cpc' = [cpc EXCEPT ![c] = "print_complete"]
    /\ UNCHANGED <<sharedVars, pc, diskVars, ramVars, cacheVars, monVars>>

\* Line 324: the completion log.
CleanupComplete(c) ==
    /\ cpc[c] = "print_complete"
    /\ completion_logs' = completion_logs + 1
    /\ cpc' = [cpc EXCEPT ![c] = "done"]
    /\ UNCHANGED <<stop_event, lock, executor, max_workers, num_cpu_threads, submitted,
                   pc, interrupts, calls, file, pool_stops, removes,
                   diskVars, ramVars, cacheVars, monVars>>

Cleanup(c) ==
    \/ CleanupGuard(c)
    \/ CleanupSet(c)
    \/ CleanupExecutor(c)
    \/ CleanupShutdown(c)
    \/ CleanupShutdownFails(c)
    \/ CleanupSleep(c)
    \/ CleanupExists(c)
    \/ CleanupRemove(c)
    \/ CleanupRemoveFails(c)
    \/ CleanupLogged(c)
    \/ CleanupComplete(c)

\* cleanup() as the atexit callback of the controlling thread.
MainCleanup == Cleanup("main")

\* A thread of the harness calls cleanup(): the function is entered at its guard.
Invoke(c) ==
    /\ cpc[c] \in {"none", "returned", "done", "raised"}
    /\ calls < MaxCalls
    /\ calls' = calls + 1
    /\ cpc' = [cpc EXCEPT ![c] = "guard"]
    /\ UNCHANGED <<stop_event, lock, executor, max_workers, num_cpu_threads, submitted,
                   pc, interrupts, file, pool_stops, removes, completion_logs,
                   diskVars, ramVars, cacheVars, monVars>>

\* cleanup() called from NCallers threads on a started pool or on none.
InitCleanup ==
    /\ array_size = 4
    /\ stride = 2
    /\ executor \in {"None", "running"}
    /\ InitCommon

NextCleanup == \E c \in HarnessCallers : Invoke(c) \/ Cleanup(c)

SpecCleanup == InitCleanup /\ [][NextCleanup]_vars

\* ------------------------------------------------------ pool scheduling
\* Lines 350-364: executor.submit starts a new pool thread as long as fewer than
\* max_workers exist, and work items are taken in the order of submission.  A
\* work item has a thread to run on when fewer than max_workers of the items
\* submitted before it are still queued or running.
Position(t) == CHOOSE k \in 1..Len(submitted) : submitted[k] = t
HasThread(t) ==
    Cardinality({k \in 1..(Position(t) - 1) : ~Ended(submitted[k])}) < max_workers

\* A queued work item is taken by its pool thread, which enters the function
\* and its first print().
Start(t) ==
    /\ t \in Range(submitted)
    /\ Running(t, "idle")
    /\ HasThread(t)
    /\ pc' = [pc EXCEPT ![t] = "print_start"]
    /\ UNCHANGED <<sharedVars, cpc, diskVars, ramVars, cacheVars, monVars>>

\* Line 311, cancel_futures=True: a work item still queued is dropped.
Cancelled(t) ==
    /\ t \in Range(submitted)
    /\ Running(t, "idle")
    /\ executor = "shutdown"
    /\ pc' = [pc EXCEPT ![t] = "cancelled"]
    /\ UNCHANGED <<sharedVars, cpc, diskVars, ramVars, cacheVars, monVars>>

\* Lines 45, 65, 95, 115, 133, 166, 202, 245 and the except clauses: the tasks
\* outside `group` end, each because it has read stop_event set or has raised.
\* Until then such a task counts as running, whatever its own position is.  Only
\* the join of the pool reads whether they have ended, so the step is taken there.
OtherTasksEnd(group) ==
    /\ pc["main"] = "finalize"
    /\ \E t \in Range(submitted) \ group : ~Ended(t)
    /\ pc' = [t \in DOMAIN pc |->
                IF t \in Range(submitted) \ group /\ ~Ended(t) THEN "done" ELSE pc[t]]
    /\ UNCHANGED <<sharedVars, cpc, diskVars, ramVars, cacheVars, monVars>>

\* ------------------------------------------- cpu_stress, gpu_stress, io_bound_stress
\* Lines 40-43, 57-62, 113: the first print() ends, the operands are built.
ComputeEnter(t) ==
    /\ Running(t, "print_start")
    /\ pc' = [pc EXCEPT ![t] = "loop"]
    /\ UNCHANGED <<sharedVars, cpc, diskVars, ramVars, cacheVars, monVars>>

\* Lines 42-43, 61-62: building the operands raises outside the try.
ComputeEnterFails(t) ==
    /\ t # "io"
    /\ Running(t, "print_start")
    /\ pc' = [pc EXCEPT ![t] = "done"]
    /\ UNCHANGED <<sharedVars, cpc, diskVars, ramVars, cacheVars, monVars>>

\* Lines 45-47, 65-72, 115-119: the loop test and one unit of work.
ComputeStep(t) ==
    /\ Running(t, "loop")
    /\ pc' = [pc EXCEPT ![t] = IF stop_event THEN "done" ELSE "loop"]
    /\ UNCHANGED <<sharedVars, cpc, diskVars, ramVars, cacheVars, monVars>>

\* Lines 48-50, 74-76, 120-122: the unit of work raises.
ComputeRaises(t) ==
    /\ Running(t, "loop")
    /\ pc' = [pc EXCEPT ![t] = IF stop_event THEN "done" ELSE "print_err"]
    /\ UNCHANGED <<sharedVars, cpc, diskVars, ramVars, cacheVars, monVars>>

\* The error line is written and the task ends.
ComputeLogged(t) ==
    /\ Running(t, "print_err")
    /\ pc' = [pc EXCEPT ![t] = "done"]
    /\ UNCHANGED <<sharedVars, cpc, diskVars, ramVars, cacheVars, monVars>>

Compute(t) ==
    \/ Start(t)
    \/ Cancelled(t)
    \/ ComputeEnter(t)
    \/ ComputeEnterFails(t)
    \/ ComputeStep(t)
    \/ ComputeRaises(t)
    \/ ComputeLogged(t)

cpu_stress == \E t \in CpuThreads(num_cpu_threads) : Compute(t)
gpu_stress == Compute("gpu")
io_bound_stress == Compute("io")

NextCpu == Main \/ MainCleanup \/ cpu_stress \/ OtherTasksEnd(AllCpuThreads)
SpecCpu == Init /\ [][NextCpu]_vars

NextCompute == Main \/ MainCleanup \/ gpu_stress \/ io_bound_stress \/ OtherTasksEnd({"gpu", "io"})
SpecCompute == Init /\ [][NextCompute]_vars

\* ---------------------------------------------------------- disk_stress
\* Lines 160-163: the first print() ends, the write buffer is filled.
DiskEnter ==
    /\ Running("disk", "print_start")
    /\ pc' = [pc EXCEPT !["disk"] = "loop"]
    /\ UNCHANGED <<sharedVars, cpc, diskVars, ramVars, cacheVars, monVars>>

\* Line 166: the loop test.
DiskTest ==
    /\ Running("disk", "loop")
    /\ pc' = [pc EXCEPT !["disk"] = IF stop_event THEN "done" ELSE "write"]
    /\ disk_exit' = IF stop_event THEN "stopped" ELSE disk_exit
    /\ UNCHANGED <<sharedVars, cpc, ramVars, cacheVars, monVars>>

\* Lines 168-170: open(DISK_FILE, 'r+b'), seek(0), write(write_buffer).
DiskWrite ==
    /\ Running("disk", "write")
    /\ file.exists
    /\ file' = [file EXCEPT !.size = IF @ < BUFFER_LEN THEN BUFFER_LEN ELSE @]
    /\ pc' = [pc EXCEPT !["disk"] = "read"]
    /\ UNCHANGED <<stop_event, lock, executor, max_workers, num_cpu_threads, submitted,
                   cpc, interrupts, calls, pool_stops, removes, completion_logs,
                   diskVars, ramVars, cacheVars, monVars>>

\* Lines 173-175: open(DISK_FILE, 'rb'), seek(0), read(len(write_buffer)).
DiskRead ==
    /\ Running("disk", "read")
    /\ file.exists
    /\ pc' = [pc EXCEPT !["disk"] = "loop"]
    /\ UNCHANGED <<sharedVars, cpc, diskVars, ramVars, cacheVars, monVars>>

\* Line 180: either open() raises FileNotFoundError, which ends the loop.
DiskMissing ==
    /\ Alive
    /\ pc["disk"] \in {"write", "read"}
    /\ ~file.exists
    /\ pc' = [pc EXCEPT !["disk"] = "create"]
    /\ UNCHANGED <<sharedVars, cpc, diskVars, ramVars, cacheVars, monVars>>

\* Lines 183-185: the file is created with its initial contents.
DiskCreate ==
    /\ Running("disk", "create")
    /\ file' = NewFile
    /\ disk_exit' = "created"
    /\ pc' = [pc EXCEPT !["disk"] = "print_info"]
    /\ UNCHANGED <<stop_event, lock, executor, max_workers, num_cpu_threads, submitted,
                   cpc, interrupts, calls, pool_stops, removes, completion_logs,
                   ramVars, cacheVars, monVars>>

\* Line 185: the info line is written; the handler and the function end.
DiskCreated ==
    /\ Running("disk", "print_info")
    /\ pc' = [pc EXCEPT !["disk"] = "done"]
    /\ UNCHANGED <<sharedVars, cpc, diskVars, ramVars, cacheVars, monVars>>

\* Lines 186-187: creating the file raises.
DiskCreateFails ==
    /\ Running("disk", "create")
    /\ disk_exit' = "create_failed"
    /\ pc' = [pc EXCEPT !["disk"] = "print_fatal"]
    /\ UNCHANGED <<sharedVars, cpc, ramVars, cacheVars, monVars>>

\* Mutant of DiskFatal: stop_event.clear() in place of stop_event.set().
DiskFatalClears ==
    /\ Running("disk", "print_fatal")
    /\ stop_event' = FALSE
    /\ pc' = [pc EXCEPT !["disk"] = "done"]
    /\ UNCHANGED <<lock, executor, max_workers, num_cpu_threads, submitted, cpc,
                   interrupts, calls, file, pool_stops, removes, completion_logs,
                   diskVars, ramVars, cacheVars, monVars>>

\* Mutant of DiskFatal: the handler ends without stop_event.set().
DiskFatalNoSet ==
    /\ Running("disk", "print_fatal")
    /\ pc' = [pc EXCEPT !["disk"] = "done"]
    /\ UNCHANGED <<sharedVars, cpc, diskVars, ramVars, cacheVars, monVars>>

\* Line 188: stop_event.set(); the handler and the function end.
DiskFatal ==
    /\ Running("disk", "print_fatal")
    /\ stop_event' = TRUE
    /\ pc' = [pc EXCEPT !["disk"] = "done"]
    /\ UNCHANGED <<lock, executor, max_workers, num_cpu_threads, submitted, cpc,
                   interrupts, calls, file, pool_stops, removes, completion_logs,
                   diskVars, ramVars, cacheVars, monVars>>

\* Lines 190-192: a write or read raises another exception, which ends the loop.
DiskRaises ==
    /\ Alive
    /\ pc["disk"] \in {"write", "read"}
    /\ disk_exit' = "error"
    /\ pc' = [pc EXCEPT !["disk"] = IF stop_event THEN "done" ELSE "print_err"]
    /\ UNCHANGED <<sharedVars, cpc, ramVars, cacheVars, monVars>>

\* Line 192: the error line is written and the function ends.
DiskLogged ==
    /\ Running("disk", "print_err")
    /\ pc' = [pc EXCEPT !["disk"] = "done"]
    /\ UNCHANGED <<sharedVars, cpc, diskVars, ramVars, cacheVars, monVars>>

disk_stress ==
    \/ Start("disk")
    \/ Cancelled("disk")
    \/ DiskEnter
    \/ DiskTest
    \/ DiskWrite
    \/ DiskRead
    \/ DiskMissing
    \/ DiskCreate
    \/ DiskCreated
    \/ DiskCreateFails
    \/ DiskFatal
    \/ DiskRaises
    \/ DiskLogged

NextDisk == Main \/ MainCleanup \/ disk_stress \/ OtherTasksEnd({"disk"})
SpecDisk == Init /\ [][NextDisk]_vars

\* The steps the controlling thread takes by itself: every action of Main but the
\* delivery of a KeyboardInterrupt, which is up to the user.
MainProgress ==
    \/ MainStart
    \/ MainSubmit
    \/ MainHeader
    \/ MainHeaderDone
    \/ MainLoop
    \/ JoinDone
    \/ AtExit
    \/ MainExit

\* Every thread that can take a step is scheduled again.
FairSpecDisk ==
    /\ SpecDisk
    /\ WF_vars(MainProgress)
    /\ WF_vars(MainCleanup)
    /\ WF_vars(disk_stress)
    /\ WF_vars(stop_event /\ OtherTasksEnd({"disk"}))

\* ----------------------------------------------------------- ram_stress
\* Line 135: a chunk is known by its allocation number; reversed records reverse().
Chunk(n) == [id |-> n, reversed |-> FALSE]

\* Lines 126-130: the first print() ends, memory_chunks = [].
RamEnter ==
    /\ Running("ram", "print_start")
    /\ memory_chunks' = <<>>
    /\ ring_exists' = TRUE
    /\ pc' = [pc EXCEPT !["ram"] = "loop"]
    /\ UNCHANGED <<sharedVars, cpc, allocs, iterations, ram_exit, diskVars, cacheVars,
                   monVars>>

\* Line 133: the loop test.
RamTest ==
    /\ Running("ram", "loop")
    /\ pc' = [pc EXCEPT !["ram"] = IF stop_event THEN "finally" ELSE "alloc"]
    /\ ram_exit' = IF stop_event THEN "stopped" ELSE ram_exit
    /\ UNCHANGED <<sharedVars, cpc, memory_chunks, ring_exists, allocs, iterations,
                   diskVars, cacheVars, monVars>>

\* Lines 135-136: the chunk is allocated and appended.
RamAllocate ==
    /\ Running("ram", "alloc")
    /\ allocs < MaxAlloc
    /\ allocs' = allocs + 1
    /\ memory_chunks' = Append(memory_chunks, Chunk(allocs + 1))
    /\ pc' = [pc EXCEPT !["ram"] = "manipulate"]
    /\ UNCHANGED <<sharedVars, cpc, ring_exists, iterations, ram_exit, diskVars,
                   cacheVars, monVars>>

\* Mutant of RamOutOfMemory: the handler escalates with stop_event.set().
RamOutOfMemoryEscalates ==
    /\ Running("ram", "alloc")
    /\ ram_exit' = "oom"
    /\ stop_event' = TRUE
    /\ pc' = [pc EXCEPT !["ram"] = "print_fatal"]
    /\ UNCHANGED <<lock, executor, max_workers, num_cpu_threads, submitted, cpc,
                   interrupts, calls, file, pool_stops, removes, completion_logs,
                   memory_chunks, ring_exists, allocs, iterations,
                   diskVars, cacheVars, monVars>>

\* Lines 148-149: the allocation raises MemoryError.
RamOutOfMemory ==
    /\ Running("ram", "alloc")
    /\ ram_exit' = "oom"
    /\ pc' = [pc EXCEPT !["ram"] = "print_fatal"]
    /\ UNCHANGED <<sharedVars, cpc, memory_chunks, ring_exists, allocs, iterations,
                   diskVars, cacheVars, monVars>>

\* Lines 139-140: the new chunk is reversed when it is not the only one.
RamManipulate ==
    /\ Running("ram", "manipulate")
    /\ memory_chunks' =
        IF Len(memory_chunks) > 1
        THEN [memory_chunks EXCEPT ![Len(memory_chunks)].reversed = ~@]
        ELSE memory_chunks
    /\ pc' = [pc EXCEPT !["ram"] = "trim"]
    /\ UNCHANGED <<sharedVars, cpc, ring_exists, allocs, iterations, ram_exit, diskVars,
                   cacheVars, monVars>>

\* Mutant of RamTrim: memory_chunks.pop() drops the newest chunk.
RamTrimPopsNewest ==
    /\ Running("ram", "trim")
    /\ memory_chunks' =
        IF Len(memory_chunks) > RingCapacity
        THEN SubSeq(memory_chunks, 1, Len(memory_chunks) - 1)
        ELSE memory_chunks
    /\ pc' = [pc EXCEPT !["ram"] = "sleep"]
    /\ UNCHANGED <<sharedVars, cpc, ring_exists, allocs, iterations, ram_exit, diskVars,
                   cacheVars, monVars>>

\* Lines 143-144: memory_chunks.pop(0) once more than four chunks are held.
RamTrim ==
    /\ Running("ram", "trim")
    /\ memory_chunks' =
        IF Len(memory_chunks) > RingCapacity THEN Tail(memory_chunks) ELSE memory_chunks
    /\ pc' = [pc EXCEPT !["ram"] = "sleep"]
    /\ UNCHANGED <<sharedVars, cpc, ring_exists, allocs, iterations, ram_exit, diskVars,
                   cacheVars, monVars>>

\* Line 146: time.sleep(0.1) ends the iteration.
RamSleep ==
    /\ Running("ram", "sleep")
    /\ iterations' = iterations + 1
    /\ pc' = [pc EXCEPT !["ram"] = "loop"]
    /\ UNCHANGED <<sharedVars, cpc, memory_chunks, ring_exists, allocs, ram_exit,
                   diskVars, cacheVars, monVars>>

\* Lines 150-152: a statement of the loop body raises another exception.
RamRaises ==
    /\ Alive
    /\ pc["ram"] \in {"alloc", "manipulate", "trim", "sleep"}
    /\ ram_exit' = "error"
    /\ pc' = [pc EXCEPT !["ram"] = IF stop_event THEN "finally" ELSE "print_err"]
    /\ UNCHANGED <<sharedVars, cpc, memory_chunks, ring_exists, allocs, iterations,
                   diskVars, cacheVars, monVars>>

\* Mutant of RamLogged: the handlers return without the finally clause.
RamLoggedSkipsFinally ==
    /\ Alive
    /\ pc["ram"] \in {"print_fatal", "print_err"}
    /\ pc' = [pc EXCEPT !["ram"] = "done"]
    /\ UNCHANGED <<sharedVars, cpc, ramVars, diskVars, cacheVars, monVars>>

\* Lines 149, 152: the log line of the handler is written.
RamLogged ==
    /\ Alive
    /\ pc["ram"] \in {"print_fatal", "print_err"}
    /\ pc' = [pc EXCEPT !["ram"] = "finally"]
    /\ UNCHANGED <<sharedVars, cpc, ramVars, diskVars, cacheVars, monVars>>

\* Lines 153-156: del memory_chunks when the global is defined.
RamFinally ==
    /\ Running("ram", "finally")
    /\ memory_chunks' = IF ring_exists THEN <<>> ELSE memory_chunks
    /\ ring_exists' = FALSE
    /\ pc' = [pc EXCEPT !["ram"] = "done"]
    /\ UNCHANGED <<sharedVars, cpc, allocs, iterations, ram_exit, diskVars, cacheVars,
                   monVars>>

ram_stress ==
    \/ Start("ram")
    \/ Cancelled("ram")
    \/ RamEnter
    \/ RamTest
    \/ RamAllocate
    \/ RamOutOfMemory
    \/ RamManipulate
    \/ RamTrim
    \/ RamSleep
    \/ RamRaises
    \/ RamLogged
    \/ RamFinally

NextRam == Main \/ MainCleanup \/ ram_stress \/ OtherTasksEnd({"ram"})
SpecRam == Init /\ [][NextRam]_vars

\* --------------------------------------------------------- cache_stress
\* Line 97: range(array_size // stride).
PassLength(size, step) == size \div step
\* Mutant of PassIndex: the index is off by one.
PassIndexOffByOne(i, step) == i * step + 1
\* Line 99: index = i * stride.
PassIndex(i, step) == i * step

\* Lines 82-92: the first print() ends, data = np.zeros(array_size).
CacheEnter ==
    /\ Running("cache", "print_start")
    /\ data' = [j \in 0..(array_size - 1) |-> 0]
    /\ pc' = [pc EXCEPT !["cache"] = "loop"]
    /\ UNCHANGED <<sharedVars, cpc, array_size, stride, cache_i, touched, passes,
                   diskVars, ramVars, monVars>>

\* Line 95: the loop test; a pass starts with i = 0.
CacheTest ==
    /\ Running("cache", "loop")
    /\ stop_event \/ passes < MaxPasses
    /\ pc' = [pc EXCEPT !["cache"] = IF stop_event THEN "done" ELSE "pass"]
    /\ cache_i' = 0
    /\ touched' = IF stop_event THEN touched ELSE {}
    /\ UNCHANGED <<sharedVars, cpc, array_size, stride, data, passes, diskVars, ramVars,
                   monVars>>

\* Lines 97-103: one iteration of the for loop.
CacheTouch ==
    /\ Running("cache", "pass")
    /\ cache_i < PassLength(array_size, stride)
    /\ LET index == PassIndex(cache_i, stride)
       IN /\ data' = [data EXCEPT ![index] = @ + 1]
          /\ touched' = touched \cup {index}
    /\ cache_i' = cache_i + 1
    /\ UNCHANGED <<sharedVars, pc, cpc, array_size, stride, passes, diskVars, ramVars,
                   monVars>>

\* Line 97: the range is exhausted and the pass ends.
CachePassDone ==
    /\ Running("cache", "pass")
    /\ cache_i >= PassLength(array_size, stride)
    /\ passes' = passes + 1
    /\ pc' = [pc EXCEPT !["cache"] = "loop"]
    /\ UNCHANGED <<sharedVars, cpc, array_size, stride, data, cache_i, touched, diskVars,
                   ramVars, monVars>>

\* Lines 105-107: the allocation or an access raises.
CacheRaises ==
    /\ Alive
    /\ pc["cache"] \in {"print_start", "pass"}
    /\ pc' = [pc EXCEPT !["cache"] = IF stop_event THEN "done" ELSE "print_err"]
    /\ UNCHANGED <<sharedVars, cpc, cacheVars, diskVars, ramVars, monVars>>

\* Line 107: the error line is written and the function ends.
CacheLogged ==
    /\ Running("cache", "print_err")
    /\ pc' = [pc EXCEPT !["cache"] = "done"]
    /\ UNCHANGED <<sharedVars, cpc, cacheVars, diskVars, ramVars, monVars>>

cache_stress ==
    \/ Start("cache")
    \/ Cancelled("cache")
    \/ CacheEnter
    \/ CacheTest
    \/ CacheTouch
    \/ CachePassDone
    \/ CacheRaises
    \/ CacheLogged

\* The strided pass on every array size and stride up to the bounds.
InitCache ==
    /\ array_size \in 1..MaxArray
    /\ stride \in 1..MaxStride
    /\ executor = "None"
    /\ InitCommon

NextCache == Main \/ MainCleanup \/ cache_stress \/ OtherTasksEnd({"cache"})
SpecCache == InitCache /\ [][NextCache]_vars

\* ---------------------------------------------------- diagnosis_monitor
\* Cumulative counters psutil may report, in bytes.
Snapshots ==
    { Snapshot0,
      [bytes_sent |-> 10485760, bytes_recv |-> 5242880,
       read_bytes |-> 83886080, write_bytes |-> 0],
      [bytes_sent |-> 20971520, bytes_recv |-> 5242880,
       read_bytes |-> 83886080, write_bytes |-> 167772160] }

\* Counters only grow between two readings.
NotBefore(a, b) ==
    /\ a.bytes_sent <= b.bytes_sent
    /\ a.bytes_recv <= b.bytes_recv
    /\ a.read_bytes <= b.read_bytes
    /\ a.write_bytes <= b.write_bytes

RECURSIVE Gcd(_, _)
Gcd(a, b) == IF b = 0 THEN a ELSE Gcd(b, a % b)

\* The quotient n / d as a fraction in lowest terms.
Fraction(n, d) == LET g == Gcd(n, d) IN <<n \div g, d \div g>>

\* Lines 264-269: (end - start) / MONITOR_INTERVAL / (4096 * 4096).
Rate(start, end) == Fraction(end - start, MONITOR_INTERVAL * (4096 * 4096))

\* Lines 239-242: the first print() ends, the sensors are probed.
MonEnter ==
    /\ Running("mon", "print_start")
    /\ pc' = [pc EXCEPT !["mon"] = "loop"]
    /\ UNCHANGED <<sharedVars, cpc, diskVars, ramVars, cacheVars, monVars>>

\* Mutant of MonTest: "while True", the loop test does not read stop_event.
MonTestIgnoresStop ==
    /\ Running("mon", "loop")
    /\ reports < MaxReports
    /\ pc' = [pc EXCEPT !["mon"] = "sample"]
    /\ UNCHANGED <<sharedVars, cpc, diskVars, ramVars, cacheVars, monVars>>

\* Line 245: the loop test.
MonTest ==
    /\ Running("mon", "loop")
    /\ stop_event \/ reports < MaxReports
    /\ pc' = [pc EXCEPT !["mon"] = IF stop_event THEN "done" ELSE "sample"]
    /\ UNCHANGED <<sharedVars, cpc, diskVars, ramVars, cacheVars, monVars>>

\* Lines 247-248: the counters before the interval.
MonSampleStart ==
    /\ Running("mon", "sample")
    /\ \E s \in Snapshots : snap_start' = s
    /\ pc' = [pc EXCEPT !["mon"] = "sleep"]
    /\ UNCHANGED <<sharedVars, cpc, snap_end, rates, reports, late_reports, diskVars,
                   ramVars, cacheVars>>

\* Line 251: time.sleep(MONITOR_INTERVAL).
MonSleep ==
    /\ Running("mon", "sleep")
    /\ pc' = [pc EXCEPT !["mon"] = "measure"]
    /\ UNCHANGED <<sharedVars, cpc, diskVars, ramVars, cacheVars, monVars>>

\* Lines 254-287: the counters after the interval, the rates, the message.
MonMeasure ==
    /\ Running("mon", "measure")
    /\ \E e \in Snapshots :
        /\ NotBefore(snap_start, e)
        /\ snap_end' = e
        /\ rates' = [net_sent |-> Rate(snap_start.bytes_sent, e.bytes_sent),
                     net_recv |-> Rate(snap_start.bytes_recv, e.bytes_recv),
                     disk_read |-> Rate(snap_start.read_bytes, e.read_bytes),
                     disk_write |-> Rate(snap_start.write_bytes, e.write_bytes)]
    /\ pc' = [pc EXCEPT !["mon"] = "acquire"]
    /\ UNCHANGED <<sharedVars, cpc, snap_start, reports, late_reports, diskVars, ramVars,
                   cacheVars>>

\* Line 289: with lock.
MonAcquire ==
    /\ Running("mon", "acquire")
    /\ lock = "free"
    /\ lock' = "mon"
    /\ pc' = [pc EXCEPT !["mon"] = "print_report"]
    /\ UNCHANGED <<stop_event, executor, max_workers, num_cpu_threads, submitted, cpc,
                   interrupts, calls, file, pool_stops, removes, completion_logs,
                   diskVars, ramVars, cacheVars, monVars>>

\* Line 290: the report is written and the lock released.
MonReport ==
    /\ Running("mon", "print_report")
    /\ lock' = "free"
    /\ reports' = reports + 1
    /\ late_reports' = IF stop_event THEN late_reports + 1 ELSE late_reports
    /\ pc' = [pc EXCEPT !["mon"] = "loop"]
    /\ UNCHANGED <<stop_event, executor, max_workers, num_cpu_threads, submitted, cpc,
                   interrupts, calls, file, pool_stops, removes, completion_logs,
                   snap_start, snap_end, rates, diskVars, ramVars, cacheVars>>

\* Lines 292-294: a statement of the iteration raises.
MonRaises ==
    /\ Alive
    /\ pc["mon"] \in {"sample", "sleep", "measure"}
    /\ pc' = [pc EXCEPT !["mon"] = IF stop_event THEN "done" ELSE "print_err"]
    /\ UNCHANGED <<sharedVars, cpc, diskVars, ramVars, cacheVars, monVars>>

\* Line 294: the error line is written and the function ends.
MonLogged ==
    /\ Running("mon", "print_err")
    /\ pc' = [pc EXCEPT !["mon"] = "done"]
    /\ UNCHANGED <<sharedVars, cpc, diskVars, ramVars, cacheVars, monVars>>

diagnosis_monitor ==
    \/ Start("mon")
    \/ Cancelled("mon")
    \/ MonEnter
    \/ MonTest
    \/ MonSampleStart
    \/ MonSleep
    \/ MonMeasure
    \/ MonAcquire
    \/ MonReport
    \/ MonRaises
    \/ MonLogged

NextMonitor == Main \/ MainCleanup \/ diagnosis_monitor \/ OtherTasksEnd({"mon"})
SpecMonitor == Init /\ [][NextMonitor]_vars

\* ------------------------------------------------------- network_stress
\* Lines 198-199: the first print() ends, the session is created.
NetEnter ==
    /\ Running("net", "print_start")
    /\ pc' = [pc EXCEPT !["net"] = "loop"]
    /\ UNCHANGED <<sharedVars, cpc, diskVars, ramVars, cacheVars, monVars>>

\* Mutant of NetTest: "while True", the loop test does not read stop_event.
NetTestIgnoresStop ==
    /\ Running("net", "loop")
    /\ pc' = [pc EXCEPT !["net"] = "request"]
    /\ UNCHANGED <<sharedVars, cpc, diskVars, ramVars, cacheVars, monVars>>

\* Line 202: the loop test.
NetTest ==
    /\ Running("net", "loop")
    /\ pc' = [pc EXCEPT !["net"] = IF stop_event THEN "done" ELSE "request"]
    /\ UNCHANGED <<sharedVars, cpc, diskVars, ramVars, cacheVars, monVars>>

\* Lines 205-213: the request succeeds and the connection is logged.
NetConnect ==
    /\ Running("net", "request")
    /\ pc' = [pc EXCEPT !["net"] = "print_conn"]
    /\ UNCHANGED <<sharedVars, cpc, diskVars, ramVars, cacheVars, monVars>>

\* Line 217: the download starts.
NetConnLogged ==
    /\ Running("net", "print_conn")
    /\ pc' = [pc EXCEPT !["net"] = "stream"]
    /\ UNCHANGED <<sharedVars, cpc, diskVars, ramVars, cacheVars, monVars>>

\* Lines 217-219: a chunk arrives; the download is left when the event is set.
NetChunk ==
    /\ Running("net", "stream")
    /\ pc' = [pc EXCEPT !["net"] = IF stop_event THEN "pause" ELSE "stream"]
    /\ UNCHANGED <<sharedVars, cpc, diskVars, ramVars, cacheVars, monVars>>

\* Line 217: the download is complete.
NetComplete ==
    /\ Running("net", "stream")
    /\ pc' = [pc EXCEPT !["net"] = "pause"]
    /\ UNCHANGED <<sharedVars, cpc, diskVars, ramVars, cacheVars, monVars>>

\* Line 223: time.sleep(1), then the next iteration.
NetPause ==
    /\ Running("net", "pause")
    /\ pc' = [pc EXCEPT !["net"] = "loop"]
    /\ UNCHANGED <<sharedVars, cpc, diskVars, ramVars, cacheVars, monVars>>

\* Lines 225-226: requests.exceptions.SSLError.
NetSslError ==
    /\ Alive
    /\ pc["net"] \in {"request", "stream"}
    /\ pc' = [pc EXCEPT !["net"] = "print_ssl"]
    /\ UNCHANGED <<sharedVars, cpc, diskVars, ramVars, cacheVars, monVars>>

\* Lines 228-230: any other requests.exceptions.RequestException.
NetRequestError ==
    /\ Alive
    /\ pc["net"] \in {"request", "stream"}
    /\ pc' = [pc EXCEPT !["net"] = "print_req"]
    /\ UNCHANGED <<sharedVars, cpc, diskVars, ramVars, cacheVars, monVars>>

\* Mutant of NetRetry: a request error ends the worker.
NetRetryGivesUp ==
    /\ Alive
    /\ pc["net"] \in {"print_ssl", "print_req"}
    /\ pc' = [pc EXCEPT !["net"] = "done"]
    /\ UNCHANGED <<sharedVars, cpc, diskVars, ramVars, cacheVars, monVars>>

\* Lines 227, 231: the error is logged, time.sleep(5), then the next iteration.
NetRetry ==
    /\ Alive
    /\ pc["net"] \in {"print_ssl", "print_req"}
    /\ pc' = [pc EXCEPT !["net"] = "loop"]
    /\ UNCHANGED <<sharedVars, cpc, diskVars, ramVars, cacheVars, monVars>>

\* Lines 233-235: an exception that is no RequestException ends the loop.
NetRaises ==
    /\ Alive
    /\ pc["net"] \in {"request", "print_conn", "stream", "pause"}
    /\ pc' = [pc EXCEPT !["net"] = IF stop_event THEN "done" ELSE "print_err"]
    /\ UNCHANGED <<sharedVars, cpc, diskVars, ramVars, cacheVars, monVars>>

\* Line 235: the error line is written and the function ends.
NetLogged ==
    /\ Running("net", "print_err")
    /\ pc' = [pc EXCEPT !["net"] = "done"]
    /\ UNCHANGED <<sharedVars, cpc, diskVars, ramVars, cacheVars, monVars>>

network_stress ==
    \/ Start("net")
    \/ Cancelled("net")
    \/ NetEnter
    \/ NetTest
    \/ NetConnect
    \/ NetConnLogged
    \/ NetChunk
    \/ NetComplete
    \/ NetPause
    \/ NetSslError
    \/ NetRequestError
    \/ NetRetry
    \/ NetRaises
    \/ NetLogged

NextNetwork == Main \/ MainCleanup \/ network_stress \/ OtherTasksEnd({"net"})
SpecNetwork == Init /\ [][NextNetwork]_vars

\* ram_stress next to gpu_stress: two workers that can fail on their own.
NextRamGpu == Main \/ MainCleanup \/ ram_stress \/ gpu_stress \/ OtherTasksEnd({"ram", "gpu"})
SpecRamGpu == Init /\ [][NextRamGpu]_vars

\* Only cleanup(), once called, is sure to be scheduled: the pool threads may
\* never run again.  Scheduling makes the statements of cleanup() execute; it
\* does not make executor.shutdown raise.
CleanupFairSpecDisk == SpecDisk /\ WF_vars(MainCleanup /\ cpc'["main"] # "raised")

\* disk_stress, which can set stop_event by itself, next to network_stress.
NextDiskNetwork ==
    Main \/ MainCleanup \/ disk_stress \/ network_stress \/ OtherTasksEnd({"disk", "net"})
SpecDiskNetwork == Init /\ [][NextDiskNetwork]_vars

\* ------------------------------------------------------------ scheduling
\* The operating system schedules every thread that can take a step: the
\* controlling thread, cleanup() and each pool thread of the group; the tasks
\* outside the group end once stop_event is set.
FairSpecCpu ==
    /\ SpecCpu
    /\ WF_vars(MainProgress)
    /\ WF_vars(MainCleanup)
    /\ \A t \in AllCpuThreads : WF_vars(t \in CpuThreads(num_cpu_threads) /\ Compute(t))
    /\ WF_vars(stop_event /\ OtherTasksEnd(AllCpuThreads))

FairSpecCompute ==
    /\ SpecCompute
    /\ WF_vars(MainProgress)
    /\ WF_vars(MainCleanup)
    /\ WF_vars(gpu_stress)
    /\ WF_vars(io_bound_stress)
    /\ WF_vars(stop_event /\ OtherTasksEnd({"gpu", "io"}))

FairSpecRam ==
    /\ SpecRam
    /\ WF_vars(MainProgress)
    /\ WF_vars(MainCleanup)
    /\ WF_vars(ram_stress)
    /\ WF_vars(stop_event /\ OtherTasksEnd({"ram"}))

FairSpecCache ==
    /\ SpecCache
    /\ WF_vars(MainProgress)
    /\ WF_vars(MainCleanup)
    /\ WF_vars(cache_stress)
    /\ WF_vars(stop_event /\ OtherTasksEnd({"cache"}))

FairSpecMonitor ==
    /\ SpecMonitor
    /\ WF_vars(MainProgress)
    /\ WF_vars(MainCleanup)
    /\ WF_vars(diagnosis_monitor)
    /\ WF_vars(stop_event /\ OtherTasksEnd({"mon"}))

FairSpecNetwork ==
    /\ SpecNetwork
    /\ WF_vars(MainProgress)
    /\ WF_vars(MainCleanup)
    /\ WF_vars(network_stress)
    /\ WF_vars(stop_event /\ OtherTasksEnd({"net"}))

FairSpecDiskNetwork ==
    /\ SpecDiskNetwork
    /\ WF_vars(MainProgress)
    /\ WF_vars(MainCleanup)
    /\ WF_vars(disk_stress)
    /\ WF_vars(network_stress)
    /\ WF_vars(stop_event /\ OtherTasksEnd({"disk", "net"}))

\* ------------------------------------------------------- the whole program
Next ==
    \/ Main
    \/ MainCleanup
    \/ cpu_stress
    \/ gpu_stress
    \/ cache_stress
    \/ io_bound_stress
    \/ ram_stress
    \/ disk_stress
    \/ network_stress
    \/ diagnosis_monitor

Spec == Init /\ [][Next]_vars

\* =================================================================== claims
AllSubmitted == Len(submitted) = Len(TaskOrder(num_cpu_threads)) /\ num_cpu_threads > 0

\* C1: once every task is submitted, a single KeyboardInterrupt leads to a state
\* where stop_event is set, every task has left its loop, cleanup() has printed
\* its completion line and DISK_FILE does not exist. Runs with a second
\* interrupt, or in which disk_stress ends by itself, are left aside.
C1_InterruptLeadsToShutdown ==
    (AllSubmitted /\ interrupts = 1 /\ pc["main"] = "finalize")
        ~> \/ /\ stop_event
              /\ \A t \in Range(submitted) : Ended(t)
              /\ cpc["main"] = "done"
              /\ ~file.exists
           \/ interrupts > 1
           \/ disk_exit # "none"

\* C2: however many times cleanup() is called, and however the calls interleave,
\* executor.shutdown, the removal of DISK_FILE and the completion line each
\* happen at most once.
C2_SideEffectsAtMostOnce ==
    /\ pool_stops <= 1
    /\ removes <= 1
    /\ completion_logs <= 1

\* C3: stop_event starts unset and no step of the program takes it from set to
\* unset, whoever calls set() and however often.
C3_TokenMonotone == ~stop_event /\ [][stop_event => stop_event']_vars

\* Both cleanup() and the handler of disk_stress have called stop_event.set().
C3_Witness ==
    /\ stop_event
    /\ pool_stops = 1
    /\ disk_exit = "create_failed"
    /\ pc["disk"] = "done"

\* C4: when disk_stress finds DISK_FILE missing and creates it, the new file holds
\* at least the write buffer, and while stop_event is unset the worker is in its
\* write/read loop once the handler has ended.
C4_CreateThenSteadyState ==
    /\ (pc["disk"] = "print_info" /\ file.exists) => file.size >= BUFFER_LEN
    /\ (disk_exit = "created" /\ pc["disk"] # "print_info" /\ ~stop_event)
        => pc["disk"] \in {"loop", "write", "read"}

\* C5: once creating DISK_FILE has failed, disk_stress is in its handler or has
\* ended, so it neither writes nor reads again, and it has ended only with
\* stop_event set.
C5_CreateFailureStops ==
    disk_exit = "create_failed"
        => /\ pc["disk"] \in {"print_fatal", "done"}
           /\ pc["disk"] = "done" => stop_event

\* disk_stress has ended after its attempt to create the file failed.
C5_Witness == disk_exit = "create_failed" /\ pc["disk"] = "done"

\* C6: when the interpreter exits, without any KeyboardInterrupt, after disk_stress
\* has set stop_event because the file could not be created, cleanup() has
\* stopped the pool and printed its completion line.
C6_FatalRunsShutdown ==
    (/\ pc["main"] = "exited"
     /\ interrupts = 0
     /\ disk_exit = "create_failed"
     /\ pc["disk"] = "done")
        => (pool_stops >= 1 /\ completion_logs >= 1)

\* C7: after five or more completed iterations of ram_stress, memory_chunks holds
\* exactly the four chunks allocated last, oldest first.
C7_RingHoldsLastFour ==
    (pc["ram"] = "loop" /\ iterations >= 5)
        => /\ Len(memory_chunks) = 4
           /\ \A j \in 1..4 : memory_chunks[j].id = iterations - 4 + j

\* ram_stress has completed more than five iterations.
C7_Witness == pc["ram"] = "loop" /\ iterations > 5 /\ Len(memory_chunks) = 4

\* C8: each rate of a report is (end - start) / MONITOR_INTERVAL / 2^20; counters
\* going from (0, 0) to (10485760, 5242880) give 2.0 sent and 1.0 received.
C8_RatesPerMiB ==
    pc["mon"] \in {"acquire", "print_report"}
        => /\ rates.net_sent =
                Fraction(snap_end.bytes_sent - snap_start.bytes_sent,
                         MONITOR_INTERVAL * 1048576)
           /\ rates.net_recv =
                Fraction(snap_end.bytes_recv - snap_start.bytes_recv,
                         MONITOR_INTERVAL * 1048576)
           /\ rates.disk_read =
                Fraction(snap_end.read_bytes - snap_start.read_bytes,
                         MONITOR_INTERVAL * 1048576)
           /\ rates.disk_write =
                Fraction(snap_end.write_bytes - snap_start.write_bytes,
                         MONITOR_INTERVAL * 1048576)
           /\ (/\ snap_start.bytes_sent = 0
               /\ snap_start.bytes_recv = 0
               /\ snap_end.bytes_sent = 10485760
               /\ snap_end.bytes_recv = 5242880)
                => (rates.net_sent = <<2, 1>> /\ rates.net_recv = <<1, 1>>)

\* C9: a completed pass has written exactly array_size div stride elements, each
\* at a multiple of stride inside the array, and no other element is ever
\* written; for 256,000,000 elements and stride 4096 a pass has 62,500 steps,
\* the last of them inside the array.
C9_StridedPass ==
    /\ \A j \in DOMAIN data : j % stride # 0 => data[j] = 0
    /\ \A j \in touched : j % stride = 0 /\ j \in 0..(array_size - 1)
    /\ (pc["cache"] = "loop" /\ passes >= 1)
        => Cardinality(touched) = array_size \div stride
    /\ PassLength(ARRAY_SIZE, STRIDE) = 62500
    /\ PassIndex(PassLength(ARRAY_SIZE, STRIDE) - 1, STRIDE) \in 0..(ARRAY_SIZE - 1)
    /\ PassIndex(PassLength(ARRAY_SIZE, STRIDE) - 1, STRIDE) % STRIDE = 0

\* A pass over an array whose size is no multiple of the stride has ended.
C9_Witness ==
    /\ pc["cache"] = "loop"
    /\ passes >= 1
    /\ array_size % stride # 0
    /\ Cardinality(touched) >= 2

\* C10: at most one thread is inside a console write at any time.
C10_ConsoleExclusive == Cardinality({t \in Threads \cup {"main"} : InConsoleWrite(t)}) <= 1

\* C11: in every state after cleanup() has removed DISK_FILE, the file does not
\* exist: neither disk_stress nor any other thread creates it again.
C11_RemovedStaysRemoved == removes >= 1 => ~file.exists

\* C12: once stop_event is set, every submitted task ends (or the process exits
\* first), and a task that reads stop_event set at its loop test leaves the loop
\* instead of starting another unit of work.
C12_CancellationObserved ==
    /\ stop_event ~> (pc["main"] = "exited" \/ \A t \in Range(submitted) : Ended(t))
    /\ [][\A t \in Tasks :
            (stop_event /\ pc[t] = "loop" /\ pc'[t] # pc[t])
                => pc'[t] \in {"done", "finally"}]_vars

\* disk_stress has set stop_event and network_stress, which was started, has
\* ended while the interpreter waits for the pool.
C12_Witness ==
    /\ stop_event
    /\ disk_exit = "create_failed"
    /\ pool_stops = 0
    /\ pc["main"] = "finalize"
    /\ AllSubmitted
    /\ \A t \in Range(submitted) : Ended(t)

\* C13: an execution of cleanup() that passes the guard goes through its steps in
\* the order of the source: the first log line, stop_event.set(), the pool stop,
\* the grace sleep, the removal attempt, the completion line.  The pool is
\* stopped, the file removed and the completion line printed only with
\* stop_event set, and the file is removed only after the pool stop was requested.
C13_ShutdownStepOrder ==
    [][LET rank == [s \in {"guard", "print_interrupt", "executor", "print_shutdown",
                           "sleep", "exists", "remove", "print_deleted",
                           "print_warning", "print_complete", "done", "returned",
                           "raised"} |->
                        CASE s = "guard" -> 0
                          [] s = "print_interrupt" -> 1
                          [] s = "executor" -> 2
                          [] s = "print_shutdown" -> 3
                          [] s = "sleep" -> 4
                          [] s = "exists" -> 5
                          [] s = "remove" -> 6
                          [] s \in {"print_deleted", "print_warning"} -> 7
                          [] s = "print_complete" -> 8
                          [] OTHER -> 9]
       IN /\ \A c \in Callers :
                (cpc'[c] # cpc[c] /\ cpc[c] \notin {"none", "returned", "done", "raised"})
                    => rank[cpc'[c]] > rank[cpc[c]]
          /\ \A c \in Callers :
                (cpc[c] = "sleep" /\ cpc'[c] # cpc[c]) => cpc'[c] = "exists"
          /\ pool_stops' # pool_stops => stop_event
          /\ file' # file /\ ~file'.exists => stop_event /\ executor # "running"
          /\ completion_logs' # completion_logs => stop_event /\ executor # "running"
      ]_vars

\* A call of cleanup() on a started pool has gone through every step.
C13_Witness ==
    \E c \in Callers :
        /\ cpc[c] = "done"
        /\ pool_stops >= 1
        /\ removes >= 1
        /\ completion_logs >= 1

\* C14: a call of cleanup() that has passed the guard reaches its completion line
\* whether or not any pool thread ends or takes another step, unless
\* executor.shutdown raises, which ends the call at once.
C14_ShutdownNeverBlocks ==
    cpc["main"] = "print_interrupt" ~> cpc["main"] \in {"done", "raised"}

\* cleanup() has printed its completion line while disk_stress is still in its loop.
C14_Witness ==
    /\ cpc["main"] = "done"
    /\ completion_logs = 1
    /\ pool_stops = 1
    /\ pc["disk"] \in {"loop", "write", "read"}

\* C15: when the interpreter exits after a call of cleanup() that passed the
\* guard, the completion line has been printed, whether the pool stop or the
\* removal of the file failed or not.
C15_BestEffortSteps ==
    (pc["main"] = "exited" /\ cpc["main"] # "returned") => completion_logs >= 1

\* C16: stop_event is set only by cleanup() (line 306) or by the handler of
\* disk_stress for a failed file creation (line 188).  A step in which a worker
\* fails or logs its failure changes neither stop_event nor the position of any
\* other task, so that a worker ends only on its own failure or after reading
\* stop_event set.
C16_FailureIsolation ==
    [][/\ stop_event' # stop_event
            => \/ \E c \in Callers : cpc[c] = "print_interrupt" /\ cpc'[c] = "executor"
               \/ pc["disk"] = "print_fatal" /\ pc'["disk"] = "done"
       /\ \A t \in Tasks :
            (pc'[t] # pc[t] /\ ({pc[t], pc'[t]} \cap {"print_err", "print_fatal"} # {}))
                => /\ \A u \in Tasks \ {t} : pc'[u] = pc[u]
                   /\ t # "disk" => stop_event' = stop_event
       /\ (pc["gpu"] = "loop" /\ pc'["gpu"] = "done") => stop_event
      ]_vars

\* ram_stress has ended on MemoryError while gpu_stress is still in its loop and
\* stop_event is unset.
C16_Witness ==
    /\ ram_exit = "oom"
    /\ pc["ram"] = "done"
    /\ pc["gpu"] = "loop"
    /\ ~stop_event
    /\ pc["main"] = "loop"

\* C17: after a write or read of disk_stress on the existing file has raised an
\* error other than FileNotFoundError and the error is logged, the worker is
\* back in its write/read loop as long as stop_event is unset.
C17_TransientErrorContinues ==
    (disk_exit = "error" /\ file.exists /\ pc["disk"] # "print_err" /\ ~stop_event)
        => pc["disk"] \in {"loop", "write", "read"}

\* C18: a request error of network_stress (SSLError or another
\* RequestException) is logged and followed by the loop test, which starts a
\* new request while stop_event is unset; so does the pause after a completed
\* download.  The worker ends only after reading stop_event set or on an
\* exception that is no request error, never from the handler of a request error.
C18_NetworkRetries ==
    [][pc'["net"] # pc["net"] =>
        /\ pc["net"] \in {"print_ssl", "print_req"} => pc'["net"] = "loop"
        /\ (pc["net"] = "loop" /\ ~stop_event) => pc'["net"] = "request"
        /\ pc["net"] = "pause" => pc'["net"] \in {"loop", "print_err", "done"}
        /\ (pc'["net"] = "done" /\ pc["net"] # "print_err") => stop_event
        /\ pc'["net"] = "print_err" => (~stop_event /\ pc["net"] \in {"request", "print_conn", "stream", "pause"})
      ]_vars

\* network_stress is in the handler of a request error with stop_event unset.
C18_Witness ==
    /\ pc["net"] \in {"print_ssl", "print_req"}
    /\ ~stop_event
    /\ pc["main"] = "loop"

\* C19: memory_chunks never holds more than four chunks, in no state of
\* ram_stress, the states between append and pop(0) included.
C19_RingCapacity == Len(memory_chunks) <= RingCapacity

\* C20: once ram_stress has ended, whether it read stop_event set, ran out of
\* memory or raised another exception, the global memory_chunks is deleted and
\* no chunk is held.
C20_RingReleasedOnExit ==
    pc["ram"] = "done" => (~ring_exists /\ memory_chunks = <<>>)

\* ram_stress has ended on MemoryError after filling the ring.
C20_Witness ==
    /\ pc["ram"] = "done"
    /\ ram_exit = "oom"
    /\ allocs >= RingCapacity
    /\ ~stop_event

\* C21: the pool has capacity num_cpu_threads + 7, where num_cpu_threads is the
\* detected core count or 4; the tasks submitted never outnumber the capacity,
\* every one of them has a pool thread to run on, and once main() prints its
\* header they are exactly the 7 other tasks and the num_cpu_threads CPU tasks.
C21_PoolSizing ==
    pc["main"] # "start" =>
        /\ num_cpu_threads \in (1..MaxCores) \cup {DefaultCpuThreads}
        /\ max_workers = num_cpu_threads + 7
        /\ Len(submitted) <= max_workers
        /\ \A t \in Range(submitted) : HasThread(t)
        /\ pc["main"] \in {"print_header", "loop"} =>
            /\ Len(submitted) = num_cpu_threads + 7
            /\ Cardinality(Range(submitted)) = Len(submitted)
            /\ Range(submitted) \cap AllCpuThreads = CpuThreads(num_cpu_threads)
            /\ Cardinality(Range(submitted) \ AllCpuThreads) = 7

\* The core count was not detected: 4 + 7 tasks are submitted and the last CPU
\* task has been started.
C21_Witness ==
    /\ pc["main"] = "loop"
    /\ num_cpu_threads = DefaultCpuThreads
    /\ Len(submitted) = 11
    /\ max_workers = 11
    /\ \A t \in CpuThreads(num_cpu_threads) : pc[t] = "loop"

\* C22: diagnosis_monitor reads stop_event once per iteration, at the loop test:
\* with stop_event set it prints at most one more report, that of the iteration
\* whose loop test it had passed, and a loop test that reads stop_event set ends
\* the monitor instead of starting another sampling iteration.
C22_MonitorAfterCancellation ==
    /\ [](late_reports <= 1)
    /\ [][/\ (stop_event /\ pc["mon"] = "loop" /\ pc'["mon"] # pc["mon"])
                => pc'["mon"] = "done"
          /\ late_reports' # late_reports => pc'["mon"] = "loop"
         ]_vars

\* The monitor has printed the report of the iteration in progress after
\* stop_event was set, and has ended at its next loop test.
C22_Witness ==
    /\ stop_event
    /\ late_reports = 1
    /\ pc["mon"] = "done"

====
